---- MODULE Spec2Model ----
(***************************************************************************)
(* MatrusVox: the live session manager (src/services/geminiLive.ts) and    *)
(* the controller that drives it (src/App.tsx), as one state machine.      *)
(* Every JavaScript task (an event handler, or the part of an async        *)
(* function between two awaits) is one action.  Resources created by the   *)
(* n-th call of connect() carry the identity n.                            *)
(***************************************************************************)
EXTENDS Integers, Sequences, FiniteSets, TLC

\* ---------------------------------------------------------------- bounds
\* calls of connect() in one run of Spec
MaxConnects == 3
\* calls of connect() in one run of SpecLive
MaxLiveConnects == 1
\* calls of connect() in one run of SpecUpload
MaxUploadConnects == 1
\* length of the accumulated transcription buffer
MaxBuf == 2
\* length of the finalized transcript list
MaxItems == 1
\* largest reading of the clock
MaxNow == 1
\* polls of one upload that are counted
MaxPolls == 1
\* calls of connect() in one run of SpecList
MaxListConnects == 1
\* length of the finalized transcript list in SpecList
MaxListItems == 2
\* largest reading of the clock in SpecList
MaxListNow == 2
\* length of the accumulated transcription buffer in SpecList
MaxListBuf == 1
\* calls of connect() in one run of SpecAudio
MaxAudioConnects == 2
\* audio events in one run of SpecAudio
MaxFrames == 3
\* calls of connect() in one run of SpecTaps
MaxTapConnects == 3
\* audio events in one run of SpecTaps
MaxTapFrames == 2

\* samples of one audio buffer in SpecPcm
MaxSamples == 2
\* a sample is a whole number of steps of 1 / SampleDen: the coarsest binary
\* grid on which a sample times 0x8000 can have a fraction
SampleDen == 2 * 32768

\* src/App.tsx:135
Threshold == 20 * 1024 * 1024
FileSizes == {Threshold - 1, Threshold, Threshold + 1}

Ids == 1..MaxConnects
NULL == 0

Pending == {"awaitMic", "awaitSession"}

VARIABLES
  svc,        \* the fields of GeminiLiveService
  ctxState,   \* AudioContext n: "running", or "none" (not created, or closed)
  micState,   \* tracks of MediaStream n: "live", or "none" (not created, or stopped)
  connState,  \* realtime connection n: "open", or "none" (not open, or closed)
  tapState,   \* ScriptProcessor n: "attached", or "none" (not created, or detached)
  closeCb,    \* connection n has a close event still to be delivered
  cpc,        \* where the n-th connect() stands
  ui,         \* the React state of App
  up,         \* the handleFileUpload call in progress
  now,        \* the last reading of the clock
  audio,      \* tap n: the audio events it had and the context it is in;
              \* connection n: the chunks it was sent
  pcm,        \* the audio buffer given to createBlob, and what it made of it
  last,       \* what the task that ran last did (observation, reset by every task)
  hist        \* observations kept across tasks

vars == <<svc, ctxState, micState, connState, tapState, closeCb, cpc, ui, up, now,
          audio, pcm, last, hist>>

\* ---------------------------------------------------------------- state
NullSvc ==
  [session |-> NULL, inputAudioContext |-> NULL, stream |-> NULL,
   processor |-> NULL, source |-> NULL, currentInputTranscription |-> <<>>]

InitUi ==
  [connectionState |-> "DISCONNECTED", transcripts |-> <<>>, currentText |-> <<>>,
   error |-> "null", audioStream |-> NULL, isUploading |-> FALSE,
   uploadStatus |-> "", fileInput |-> "", mounted |-> TRUE]

NoBlob == [data |-> <<>>, mimeType |-> ""]

NoPcm == [data |-> <<>>, int16 |-> <<>>, blob |-> NoBlob]

InitAudio ==
  [produced |-> [k \in Ids |-> 0], sent |-> [k \in Ids |-> <<>>],
   ctx |-> [k \in Ids |-> NULL]]

IdleUp ==
  [pc |-> "idle", size |-> 0, state |-> "", polls |-> 0, log |-> <<>>,
   part |-> "", startedAs |-> ""]

NoLast(op, k) ==
  [op |-> op, k |-> k, disc |-> 0, nFalse |-> 0, nTrue |-> 0, nErr |-> 0,
   heldAtErr |-> FALSE, threw |-> FALSE, caught |-> FALSE, heldBefore |-> FALSE,
   failed |-> FALSE, order |-> <<>>, discDuring |-> FALSE, failReports |-> 0,
   items |-> <<>>, frag |-> <<>>, turnComplete |-> FALSE, expected |-> <<>>,
   prevPartial |-> <<>>, upEnd |-> "", up |-> IdleUp, respText |-> <<>>,
   confirmed |-> FALSE]

InitHist ==
  [discDuring |-> [k \in Ids |-> FALSE],
   failReports |-> [k \in Ids |-> 0],
   turn |-> <<>>,
   prevPartial |-> <<>>]

World ==
  [svc |-> svc, ctxState |-> ctxState, micState |-> micState, connState |-> connState,
   tapState |-> tapState, closeCb |-> closeCb, cpc |-> cpc, ui |-> ui,
   up |-> up, now |-> now, audio |-> audio, last |-> last, hist |-> hist]

\* the observation of a task, closed when the task ends: the fragments
\* delivered since the last finalized item or disconnect() (hist.turn), kept
\* apart from the manager's buffer, and the text of the last partial update
Finals(items) == SelectSeq(items, LAMBDA it : ~it.isPartial)
Partials(items) == SelectSeq(items, LAMBDA it : it.isPartial)

Observed(w) ==
  LET delivered == w.hist.turn \o w.last.frag
      reset == w.last.disc > 0 \/ Finals(w.last.items) # <<>>
      parts == Partials(w.last.items)
  IN [w EXCEPT !.last.expected = delivered,
               !.last.prevPartial = w.hist.prevPartial,
               !.hist.turn = IF reset THEN <<>> ELSE delivered,
               !.hist.prevPartial = IF reset THEN <<>>
                                    ELSE IF parts # <<>> THEN parts[Len(parts)].text
                                    ELSE @]

Commit(w) ==
  /\ svc' = w.svc
  /\ ctxState' = w.ctxState
  /\ micState' = w.micState
  /\ connState' = w.connState
  /\ tapState' = w.tapState
  /\ closeCb' = w.closeCb
  /\ cpc' = w.cpc
  /\ ui' = w.ui
  /\ up' = w.up
  /\ now' = w.now
  /\ audio' = w.audio
  /\ pcm' = pcm
  /\ last' = Observed(w).last
  /\ hist' = Observed(w).hist

\* a task begins: the observation of the previous task is dropped
Start(op, k) == [World EXCEPT !.last = NoLast(op, k)]

Held(s) ==
  \/ s.session # NULL
  \/ s.inputAudioContext # NULL
  \/ s.stream # NULL
  \/ s.processor # NULL
  \/ s.source # NULL

\* ---------------------------------------------------------------- App.tsx callbacks
\* setState of an unmounted component changes nothing
handleStatusChange(w, isConnected) ==
  LET u == IF ~w.ui.mounted THEN w.ui
           ELSE IF isConnected
           THEN [w.ui EXCEPT !.connectionState = "CONNECTED",
                             !.audioStream = w.svc.stream,
                             !.error = "null"]
           ELSE [w.ui EXCEPT !.connectionState = "DISCONNECTED",
                             !.audioStream = NULL]
  IN [w EXCEPT !.ui = u,
               !.last.nTrue = @ + (IF isConnected THEN 1 ELSE 0),
               !.last.nFalse = @ + (IF isConnected THEN 0 ELSE 1),
               !.up.log = IF ~isConnected /\ w.up.pc = "starting"
                          THEN Append(@, "notConnected") ELSE @]

handleError(w, errMessage) ==
  LET u == IF ~w.ui.mounted THEN w.ui
           ELSE [w.ui EXCEPT !.error = errMessage, !.connectionState = "ERROR"]
  IN [w EXCEPT !.ui = u,
               !.last.nErr = @ + 1,
               !.last.heldAtErr = @ \/ Held(w.svc)]

\* ---------------------------------------------------------------- GeminiLiveService
\* this.session.close(): an open connection closes and its close event is
\* queued; on a connection that is no longer open the call changes nothing
\* and may throw
sessionClose(w, k) ==
  IF w.connState[k] = "open"
  THEN [w EXCEPT !.connState[k] = "none", !.closeCb[k] = TRUE]
  ELSE w

closeRaises(w, closeThrows) ==
  /\ closeThrows
  /\ w.svc.session # NULL
  /\ w.connState[w.svc.session] # "open"

\* a release that closes the audio context before it detaches the tap
releaseAndNotifyContextFirst(w) ==
  LET s == w.svc
      w2 == IF s.inputAudioContext # NULL
            THEN [w EXCEPT !.ctxState[s.inputAudioContext] = "none",
                           !.last.order = Append(@, "context")]
            ELSE w
      w3 == IF s.processor # NULL
            THEN [w2 EXCEPT !.tapState[s.processor] = "none",
                            !.audio.ctx[s.processor] = NULL,
                            !.last.order = Append(@, "tap")]
            ELSE w2
      w4 == IF s.source # NULL
            THEN [w3 EXCEPT !.last.order = Append(@, "source")]
            ELSE w3
      w5 == IF s.stream # NULL
            THEN [w4 EXCEPT !.micState[s.stream] = "none",
                            !.last.order = Append(@, "tracks")]
            ELSE w4
      w6 == [w5 EXCEPT !.svc = NullSvc, !.last.order = Append(@, "buffer")]
  IN handleStatusChange([w6 EXCEPT !.last.order = Append(@, "notify")], FALSE)

releaseAndNotify(w) ==
  LET s == w.svc
      w2 == IF s.processor # NULL
            THEN [w EXCEPT !.tapState[s.processor] = "none",
                           !.audio.ctx[s.processor] = NULL,
                           !.last.order = Append(@, "tap")]
            ELSE w
      w3 == IF s.source # NULL
            THEN [w2 EXCEPT !.last.order = Append(@, "source")]
            ELSE w2
      w4 == IF s.stream # NULL
            THEN [w3 EXCEPT !.micState[s.stream] = "none",
                            !.last.order = Append(@, "tracks")]
            ELSE w3
      w5 == IF s.inputAudioContext # NULL
            THEN [w4 EXCEPT !.ctxState[s.inputAudioContext] = "none",
                            !.last.order = Append(@, "context")]
            ELSE w4
      w6 == [w5 EXCEPT !.svc = NullSvc, !.last.order = Append(@, "buffer")]
  IN handleStatusChange([w6 EXCEPT !.last.order = Append(@, "notify")], FALSE)

\* the task of w is a step of the k-th connect()
OwnConnect(w, k) == w.last.op = "connect" /\ w.last.k = k

\* disconnect() is entered: what it finds is noted, and so is every other
\* connect() that is pending at this moment
enterDisconnect(w) ==
  [w EXCEPT !.last.disc = @ + 1,
            !.last.heldBefore = Held(w.svc),
            !.hist.discDuring =
               [k \in Ids |-> @[k] \/ (w.cpc[k] \in Pending /\ ~OwnConnect(w, k))]]

\* a disconnect() whose session.close() is not guarded: the exception leaves
\* the method
disconnectNoCatch(w, closeThrows) ==
  LET w0 == enterDisconnect(w)
      s == w.svc
  IN IF closeRaises(w, closeThrows)
     THEN [w0 EXCEPT !.last.threw = TRUE]
     ELSE releaseAndNotify(
            IF s.session # NULL
            THEN [sessionClose(w0, s.session) EXCEPT !.last.order = Append(@, "connection")]
            ELSE w0)

disconnect(w, closeThrows) ==
  LET w0 == [enterDisconnect(w) EXCEPT !.last.caught = closeRaises(w, closeThrows)]
      s == w.svc
      w1 == IF s.session # NULL
            THEN [sessionClose(w0, s.session) EXCEPT !.last.order = Append(@, "connection")]
            ELSE w0
  IN releaseAndNotify(w1)

\* connect() returns
connectReturns(w, k) ==
  [w EXCEPT !.cpc[k] = "done",
            !.last.discDuring = w.hist.discDuring[k],
            !.hist.discDuring[k] = FALSE]

\* a catch block that cleans up first and reports the error last
connectCatchReportLast(w, k, closeThrows) ==
  LET w1 == disconnect([w EXCEPT !.last.failed = TRUE], closeThrows)
  IN connectReturns(handleError(w1, "connect failed"), k)

\* the catch block of connect()
connectCatch(w, k, closeThrows) ==
  LET w1 == handleError([w EXCEPT !.last.failed = TRUE], "connect failed")
  IN connectReturns(disconnect(w1, closeThrows), k)

\* connect() up to its first await
connect(w, k, ctxOk, closeThrows) ==
  IF ~ctxOk
  THEN connectCatch(w, k, closeThrows)
  ELSE [w EXCEPT !.ctxState[k] = "running",
                 !.svc.inputAudioContext = k,
                 !.cpc[k] = "awaitMic"]

\* setupAudioProcessing; tapFail names the call that throws, if one does
setupAudioProcessing(w, k, tapFail) ==
  IF w.svc.inputAudioContext = NULL \/ w.svc.stream = NULL
  THEN w
  ELSE IF tapFail = "source"
  THEN w
  ELSE IF tapFail = "processor"
  THEN [w EXCEPT !.svc.source = k]
  ELSE [w EXCEPT !.svc.source = k, !.svc.processor = k, !.tapState[k] = "attached",
                 !.audio.ctx[k] = w.svc.inputAudioContext]

setupRaises(w, tapFail) ==
  /\ w.svc.inputAudioContext # NULL
  /\ w.svc.stream # NULL
  /\ tapFail # "none"

\* a connection that takes the newest chunk first
sendRealtimeInputFront(w, k, media) ==
  IF w.connState[k] = "open"
  THEN [w EXCEPT !.audio.sent[k] = <<media>> \o @]
  ELSE w

\* session.sendRealtimeInput on connection k: an open connection takes the
\* chunk after those it took before; a closed one takes nothing
sendRealtimeInput(w, k, media) ==
  IF w.connState[k] = "open"
  THEN [w EXCEPT !.audio.sent[k] = Append(@, media)]
  ELSE w

\* the reactions of the settled sessionPromise of connect k run in the order
\* in which then() registered them
RECURSIVE runReactions(_, _, _)
runReactions(w, k, jobs) ==
  IF jobs = <<>> THEN w
  ELSE runReactions(sendRealtimeInput(w, k, Head(jobs)), k, Tail(jobs))

\* an audio event whose dispatch goes to the session the manager holds when
\* the reaction runs, not to the session of the tap's own connect()
onaudioprocessTaskCurrent(w, k) ==
  LET pcmBlob == w.audio.produced[k] + 1
      w1 == [w EXCEPT !.audio.produced[k] = pcmBlob]
  IN IF w.svc.session = NULL THEN w1
     ELSE runReactions(w1, w.svc.session, <<pcmBlob>>)

\* onaudioprocess of tap k and the microtasks that follow it: the n-th
\* audio event makes chunk n and registers its dispatch on sessionPromise,
\* which has settled by the time the tap exists
onaudioprocessTask(w, k) ==
  LET pcmBlob == w.audio.produced[k] + 1
      w1 == [w EXCEPT !.audio.produced[k] = pcmBlob]
  IN runReactions(w1, k, <<pcmBlob>>)

\* connect() after getUserMedia settled
connectAfterMic(w, k, micOk, closeThrows) ==
  IF ~micOk
  THEN connectCatch(w, k, closeThrows)
  ELSE [w EXCEPT !.micState[k] = "live",
                 !.svc.stream = k,
                 !.cpc[k] = "awaitSession"]

\* connect() after ai.live.connect settled
connectAfterSession(w, k, sessionOk, tapFail, closeThrows) ==
  IF ~sessionOk
  THEN connectCatch(w, k, closeThrows)
  ELSE LET w1 == [w EXCEPT !.connState[k] = "open", !.svc.session = k]
           w2 == setupAudioProcessing(w1, k, tapFail)
       IN IF setupRaises(w1, tapFail)
          THEN connectCatch(w2, k, closeThrows)
          ELSE connectReturns(handleStatusChange(w2, TRUE), k)

\* ---------------------------------------------------------------- audio utilities
\* a sample is the number x / SampleDen, given by x
Min(a, b) == IF a < b THEN a ELSE b

Max(a, b) == IF a > b THEN a ELSE b

\* the integer part of x * k / d for d > 0 and k > 0, computed through the
\* whole part and the rest of |x| / d so that no product leaves 32 bits
Scaled(x, k, d) ==
  LET m == IF x < 0 THEN -x ELSE x
      v == (m \div d) * k + ((m % d) * k) \div d
  IN IF x < 0 THEN -v ELSE v

\* storing the integer n into an Int16Array: n modulo 2^16
ToInt16(n) == ((n + 32768) % 65536) - 32768

\* a conversion without the clamp
sampleToInt16NoClamp(x) ==
  ToInt16(IF x < 0 THEN Scaled(x, 32768, SampleDen) ELSE Scaled(x, 32767, SampleDen))

\* the body of the loop of createBlob
sampleToInt16(x) ==
  LET s == Max(-SampleDen, Min(SampleDen, x))
  IN ToInt16(IF s < 0 THEN Scaled(s, 32768, SampleDen) ELSE Scaled(s, 32767, SampleDen))

\* new Uint8Array(int16.buffer): two bytes per sample, low byte first
RECURSIVE bufferBytes(_)
bufferBytes(int16) ==
  IF int16 = <<>> THEN <<>>
  ELSE LET u == Head(int16) % 65536
       IN <<u % 256, u \div 256>> \o bufferBytes(Tail(int16))

\* btoa of the bytes, as the positions of its characters in the base64
\* alphabet, with 64 for the padding character
RECURSIVE encode(_)
encode(bytes) ==
  IF bytes = <<>> THEN <<>>
  ELSE IF Len(bytes) = 1
  THEN <<bytes[1] \div 4, (bytes[1] % 4) * 16, 64, 64>>
  ELSE IF Len(bytes) = 2
  THEN <<bytes[1] \div 4, (bytes[1] % 4) * 16 + bytes[2] \div 16,
         (bytes[2] % 16) * 4, 64>>
  ELSE <<bytes[1] \div 4, (bytes[1] % 4) * 16 + bytes[2] \div 16,
         (bytes[2] % 16) * 4 + bytes[3] \div 64, bytes[3] % 64>>
       \o encode(SubSeq(bytes, 4, Len(bytes)))

createBlob(data) ==
  LET int16 == [i \in 1..Len(data) |-> sampleToInt16(data[i])]
  IN [data |-> data,
      int16 |-> int16,
      blob |-> [data |-> encode(bufferBytes(int16)), mimeType |-> "audio/pcm;rate=16000"]]

\* ---------------------------------------------------------------- transcription
IsSpace(c) == c = " "

RECURSIVE TrimStart(_)
TrimStart(t) ==
  IF t # <<>> /\ IsSpace(Head(t)) THEN TrimStart(Tail(t)) ELSE t

RECURSIVE TrimEnd(_)
TrimEnd(t) ==
  IF t # <<>> /\ IsSpace(t[Len(t)]) THEN TrimEnd(SubSeq(t, 1, Len(t) - 1)) ELSE t

\* String.prototype.trim
Trim(t) == TrimEnd(TrimStart(t))

SetUi(w, u) == IF w.ui.mounted THEN [w EXCEPT !.ui = u] ELSE w

\* an update handler that puts a finalized item at the head of the list
handleTranscriptionUpdateFront(w, item) ==
  IF item.isPartial
  THEN SetUi(w, [w.ui EXCEPT !.currentText = item.text])
  ELSE SetUi(w, [w.ui EXCEPT !.transcripts = <<item>> \o @, !.currentText = <<>>])

handleTranscriptionUpdate(w, item) ==
  IF item.isPartial
  THEN SetUi(w, [w.ui EXCEPT !.currentText = item.text])
  ELSE SetUi(w, [w.ui EXCEPT !.transcripts = Append(@, item), !.currentText = <<>>])

\* t is the reading of the clock
emitTranscription(w, isPartial, t) ==
  LET item == [id |-> IF isPartial THEN "current-turn" ELSE ToString(t),
               text |-> w.svc.currentInputTranscription,
               isPartial |-> isPartial,
               timestamp |-> t,
               speaker |-> "user"]
  IN handleTranscriptionUpdate([w EXCEPT !.last.items = Append(@, item), !.now = t], item)

\* the same with the turn finalized whenever the buffer is not empty
handleOnMessageNoTrim(w, msg, t) ==
  LET w1 == IF msg.text # <<>>
            THEN emitTranscription(
                   [w EXCEPT !.svc.currentInputTranscription = @ \o msg.text], TRUE, t)
            ELSE w
  IN IF msg.turnComplete /\ w1.svc.currentInputTranscription # <<>>
     THEN [emitTranscription(w1, FALSE, t) EXCEPT !.svc.currentInputTranscription = <<>>]
     ELSE w1

\* the same with the fragment assigned to the buffer, not appended
handleOnMessageDelta(w, msg, t) ==
  LET w1 == IF msg.text # <<>>
            THEN emitTranscription(
                   [w EXCEPT !.svc.currentInputTranscription = msg.text], TRUE, t)
            ELSE w
  IN IF msg.turnComplete /\ Trim(w1.svc.currentInputTranscription) # <<>>
     THEN [emitTranscription(w1, FALSE, t) EXCEPT !.svc.currentInputTranscription = <<>>]
     ELSE w1

\* msg.text is <<>> when the message carries no inputTranscription text
handleOnMessage(w, msg, t) ==
  LET w1 == IF msg.text # <<>>
            THEN emitTranscription(
                   [w EXCEPT !.svc.currentInputTranscription = @ \o msg.text], TRUE, t)
            ELSE w
  IN IF msg.turnComplete /\ Trim(w1.svc.currentInputTranscription) # <<>>
     THEN [emitTranscription(w1, FALSE, t) EXCEPT !.svc.currentInputTranscription = <<>>]
     ELSE w1

\* ---------------------------------------------------------------- batch transcription
uploadFinally(w, how) ==
  LET w1 == SetUi(w, [w.ui EXCEPT !.isUploading = FALSE, !.uploadStatus = "",
                                  !.fileInput = ""])
  IN [w1 EXCEPT !.last.upEnd = how, !.last.up = w.up, !.up = IdleUp]

\* a catch block that is not followed by the finally block
uploadCatchNoFinally(w, message) ==
  [SetUi(w, [w.ui EXCEPT !.error = message])
     EXCEPT !.last.upEnd = "error", !.last.up = w.up, !.up = IdleUp]

uploadCatch(w, message) ==
  uploadFinally(SetUi(w, [w.ui EXCEPT !.error = message]), "error")

\* ai.models.generateContent is called with contentPart
requestTranscription(w, part) ==
  LET w1 == SetUi(w, [w.ui EXCEPT !.uploadStatus = "Transcribing..."])
  IN [w1 EXCEPT !.up.part = part, !.up.log = Append(@, "generate"),
                !.up.pc = "awaitGenerate"]

\* the head of the loop  while (state === 'PROCESSING')
pollLoop(w) ==
  IF w.up.state = "PROCESSING"
  THEN [w EXCEPT !.up.pc = "awaitTimer"]
  ELSE requestTranscription(w, "fileData")

\* handleFileUpload up to its first await, with the live session
\* disconnected only after the first request
handleFileUploadLate(w, size, closeThrows) ==
  LET w1 == SetUi([w EXCEPT !.up = [IdleUp EXCEPT !.pc = "starting", !.size = size,
                                       !.startedAs = w.ui.connectionState]],
                  [w.ui EXCEPT !.isUploading = TRUE, !.error = "null",
                               !.uploadStatus = "Preparing...",
                               !.fileInput = "chosen"])
      w2 == IF size < Threshold
            THEN SetUi(w1, [w1.ui EXCEPT !.uploadStatus = "Processing audio..."])
            ELSE [SetUi(w1, [w1.ui EXCEPT !.uploadStatus = "Uploading large file..."])
                    EXCEPT !.up.log = Append(@, "upload")]
      w3 == IF w.ui.connectionState = "CONNECTED"
            THEN disconnect(w2, closeThrows)
            ELSE w2
  IN [w3 EXCEPT !.up.pc = IF size < Threshold THEN "awaitBase64" ELSE "awaitUpload"]

\* handleFileUpload up to its first await, with a file of exactly the
\* threshold size sent inline
handleFileUploadInclusive(w, size, closeThrows) ==
  LET w1 == SetUi([w EXCEPT !.up = [IdleUp EXCEPT !.pc = "starting", !.size = size,
                                       !.startedAs = w.ui.connectionState]],
                  [w.ui EXCEPT !.isUploading = TRUE, !.error = "null",
                               !.uploadStatus = "Preparing...",
                               !.fileInput = "chosen"])
      w3 == IF w.ui.connectionState = "CONNECTED"
            THEN disconnect(w1, closeThrows)
            ELSE w1
  IN IF size <= Threshold
     THEN [SetUi(w3, [w3.ui EXCEPT !.uploadStatus = "Processing audio..."])
             EXCEPT !.up.pc = "awaitBase64"]
     ELSE [SetUi(w3, [w3.ui EXCEPT !.uploadStatus = "Uploading large file..."])
             EXCEPT !.up.pc = "awaitUpload", !.up.log = Append(@, "upload")]

\* handleFileUpload up to its first await
handleFileUpload(w, size, closeThrows) ==
  LET w1 == SetUi([w EXCEPT !.up = [IdleUp EXCEPT !.pc = "starting", !.size = size,
                                       !.startedAs = w.ui.connectionState]],
                  [w.ui EXCEPT !.isUploading = TRUE, !.error = "null",
                               !.uploadStatus = "Preparing...",
                               !.fileInput = "chosen"])
      w3 == IF w.ui.connectionState = "CONNECTED"
            THEN disconnect(w1, closeThrows)
            ELSE w1
  IN IF size < Threshold
     THEN [SetUi(w3, [w3.ui EXCEPT !.uploadStatus = "Processing audio..."])
             EXCEPT !.up.pc = "awaitBase64"]
     ELSE [SetUi(w3, [w3.ui EXCEPT !.uploadStatus = "Uploading large file..."])
             EXCEPT !.up.pc = "awaitUpload", !.up.log = Append(@, "upload")]

afterBase64(w, ok) ==
  IF ok THEN requestTranscription(w, "inlineData")
  ELSE uploadCatch(w, "Failed to transcribe file. Please try again.")

UploadResponses == {"rejected", "nouri", "PROCESSING", "ACTIVE", "FAILED"}

afterUpload(w, resp) ==
  IF resp \in {"rejected", "nouri"}
  THEN uploadCatch(w, "Large file upload failed")
  ELSE pollLoop(SetUi([w EXCEPT !.up.state = resp],
                      [w.ui EXCEPT !.uploadStatus = "Processing file on server..."]))

\* the timer of the poll loop fires and ai.files.get is called; polls beyond
\* MaxPolls are made but no longer counted
afterTimer(w) ==
  [w EXCEPT !.up.pc = "awaitGet",
            !.up.log = IF w.up.polls < MaxPolls THEN Append(@, "poll") ELSE @,
            !.up.polls = IF @ < MaxPolls THEN @ + 1 ELSE @]

GetResponses == {"rejected", "PROCESSING", "ACTIVE", "FAILED"}

afterGet(w, resp) ==
  IF resp = "rejected"
  THEN uploadCatch(w, "Large file upload failed")
  ELSE LET w1 == [w EXCEPT !.up.state = resp]
       IN IF resp = "FAILED"
          THEN uploadCatch(w1, "Large file upload failed")
          ELSE pollLoop(w1)

\* the same without the test  if (text)
afterGenerateAlways(w, ok, text, t) ==
  IF ~ok
  THEN uploadCatch(w, "Failed to transcribe file. Please try again.")
  ELSE uploadFinally(
         SetUi([w EXCEPT !.now = t, !.last.respText = text],
               [w.ui EXCEPT !.transcripts =
                  Append(@, [id |-> ToString(t), text |-> text, isPartial |-> FALSE,
                             timestamp |-> t, speaker |-> "user"])]),
         "item")

\* text is <<>> when the response carries none
afterGenerate(w, ok, text, t) ==
  IF ~ok
  THEN uploadCatch(w, "Failed to transcribe file. Please try again.")
  ELSE IF text # <<>>
  THEN uploadFinally(
         SetUi([w EXCEPT !.now = t, !.last.respText = text],
               [w.ui EXCEPT !.transcripts =
                  Append(@, [id |-> ToString(t), text |-> text, isPartial |-> FALSE,
                             timestamp |-> t, speaker |-> "user"])]),
         "item")
  ELSE uploadFinally(w, "empty")

\* ---------------------------------------------------------------- actions
\* whether session.close() throws is open only when there is a session to close
CloseOutcomes == IF svc.session = NULL THEN {FALSE} ELSE BOOLEAN

NextId == CHOOSE k \in Ids : cpc[k] = "idle" /\ \A j \in Ids : j < k => cpc[j] # "idle"

TapFails == {"none", "source", "processor"}
Chars == {"a", " "}
Frags == {<<>>} \cup {<<c>> : c \in Chars}
Texts == {<<>>, <<"a">>, <<" ">>}

\* the record button (disabled while CONNECTING or uploading); at most cap
\* calls of connect() are followed
toggle(cap) ==
  /\ ui.mounted
  /\ ~(ui.connectionState = "CONNECTING" \/ ui.isUploading)
  /\ IF ui.connectionState \in {"CONNECTED", "CONNECTING"}
     THEN \E closeThrows \in CloseOutcomes :
            Commit(disconnect(Start("toggleRecording", 0), closeThrows))
     ELSE /\ \E k \in 1..cap : cpc[k] = "idle"
          /\ \E ctxOk \in BOOLEAN, closeThrows \in CloseOutcomes :
               Commit(connect([Start("connect", NextId) EXCEPT
                                 !.ui = IF @.mounted
                                        THEN [@ EXCEPT !.connectionState = "CONNECTING"]
                                        ELSE @],
                              NextId, ctxOk, closeThrows))

toggleRecording == toggle(MaxConnects)

toggleRecordingLive == toggle(MaxLiveConnects)

toggleRecordingUpload == toggle(MaxUploadConnects)

toggleRecordingList == toggle(MaxListConnects)

toggleRecordingAudio == toggle(MaxAudioConnects)

toggleRecordingTaps == toggle(MaxTapConnects)

micSettles ==
  \E k \in Ids :
    /\ cpc[k] = "awaitMic"
    /\ \E micOk \in BOOLEAN, closeThrows \in CloseOutcomes :
         Commit(connectAfterMic(Start("connect", k), k, micOk, closeThrows))

sessionSettles ==
  \E k \in Ids :
    /\ cpc[k] = "awaitSession"
    /\ \E sessionOk \in BOOLEAN, tapFail \in TapFails, closeThrows \in CloseOutcomes :
         Commit(connectAfterSession(Start("connect", k), k, sessionOk, tapFail, closeThrows))

\* the close event of connection k: the peer closes an open connection, or
\* the event queued by session.close() arrives
handleOnClose ==
  \E k \in Ids :
    /\ connState[k] = "open" \/ closeCb[k]
    /\ \E closeThrows \in CloseOutcomes :
         LET w0 == [Start("handleOnClose", k) EXCEPT
                      !.connState[k] = "none", !.closeCb[k] = FALSE]
             w1 == disconnect(w0, closeThrows)
         IN Commit([w1 EXCEPT !.last.failReports =
                                 IF hist.failReports[k] > 0
                                 THEN hist.failReports[k] + w1.last.nFalse ELSE 0,
                              !.hist.failReports[k] = 0])

\* the error event of open connection k; the socket is closed by then and its
\* close event follows
handleOnError ==
  \E k \in Ids :
    /\ connState[k] = "open"
    /\ \E closeThrows \in CloseOutcomes :
         LET w0 == [Start("handleOnError", k) EXCEPT
                      !.connState[k] = "none", !.closeCb[k] = TRUE]
             w1 == disconnect(handleError(w0, "Connection error occurred."), closeThrows)
         IN Commit([w1 EXCEPT !.last.failReports = w1.last.nFalse,
                              !.hist.failReports[k] = w1.last.nFalse])

\* a message of open connection k; the list is followed up to capItems
\* items, the clock up to capNow and the buffer up to capBuf characters
message(capItems, capNow, capBuf) ==
  \E k \in Ids :
    /\ connState[k] = "open"
    /\ \E text \in Frags, turnComplete \in BOOLEAN, t \in now..capNow :
         /\ text # <<>> \/ turnComplete
         /\ Len(svc.currentInputTranscription) + Len(text) <= capBuf
         /\ Len(ui.transcripts) < capItems
         /\ Commit(handleOnMessage(
                     [Start("handleOnMessage", k) EXCEPT
                        !.last.frag = text, !.last.turnComplete = turnComplete],
                     [text |-> text, turnComplete |-> turnComplete], t))

onmessage == message(MaxItems, MaxNow, MaxBuf)

\* the audio events that the taps 1..n had
RECURSIVE audioEvents(_)
audioEvents(n) == IF n = 0 THEN 0 ELSE audio.produced[n] + audioEvents(n - 1)

\* an audio event of tap k, which fires while its context runs; at most
\* cap audio events are followed
audioEvent(cap) ==
  \E k \in Ids :
    /\ tapState[k] = "attached"
    /\ ctxState[audio.ctx[k]] = "running"
    /\ audioEvents(MaxConnects) < cap
    /\ Commit(onaudioprocessTask(Start("onaudioprocess", k), k))

onaudioprocess == audioEvent(MaxFrames)

onaudioprocessTaps == audioEvent(MaxTapFrames)

onmessageList == message(MaxListItems, MaxListNow, MaxListBuf)

\* App is unmounted: its state is gone, and its effect cleanup runs
unmount ==
  /\ ui.mounted
  /\ \E closeThrows \in CloseOutcomes :
       Commit(disconnect([Start("unmount", 0) EXCEPT !.ui = [InitUi EXCEPT !.mounted = FALSE]],
                         closeThrows))

\* a clear that empties the partial text in every connection state
clearTranscriptsAll(w, confirmed) ==
  IF ~confirmed THEN w
  ELSE [w EXCEPT !.last.confirmed = TRUE,
                 !.ui.transcripts = <<>>,
                 !.ui.currentText = <<>>]

\* clearTranscripts past its early return; confirmed is the answer to
\* window.confirm
clearTranscriptsAsked(w, confirmed) ==
  IF ~confirmed THEN w
  ELSE [w EXCEPT !.last.confirmed = TRUE,
                 !.ui.transcripts = <<>>,
                 !.ui.currentText =
                    IF w.ui.connectionState # "CONNECTED" THEN <<>> ELSE @]

\* the clear button (disabled when there is nothing to clear)
clearTranscripts ==
  /\ ui.mounted
  /\ ~(Len(ui.transcripts) = 0 /\ ui.currentText = <<>>)
  /\ \E confirmed \in BOOLEAN :
       Commit(clearTranscriptsAsked(Start("clearTranscripts", 0), confirmed))

\* a file is chosen with the upload button (disabled while uploading)
fileChosen ==
  /\ ui.mounted
  /\ ~ui.isUploading
  /\ \E size \in FileSizes, closeThrows \in CloseOutcomes :
       Commit(handleFileUpload(Start("handleFileUpload", 0), size, closeThrows))

base64Settles ==
  /\ up.pc = "awaitBase64"
  /\ \E ok \in BOOLEAN : Commit(afterBase64(Start("handleFileUpload", 0), ok))

uploadSettles ==
  /\ up.pc = "awaitUpload"
  /\ \E resp \in UploadResponses : Commit(afterUpload(Start("handleFileUpload", 0), resp))

timerFires ==
  /\ up.pc = "awaitTimer"
  /\ Commit(afterTimer(Start("handleFileUpload", 0)))

getSettles ==
  /\ up.pc = "awaitGet"
  /\ \E resp \in GetResponses : Commit(afterGet(Start("handleFileUpload", 0), resp))

generate(capItems, capNow) ==
  /\ up.pc = "awaitGenerate"
  /\ \E ok \in BOOLEAN, text \in Texts, t \in now..capNow :
       /\ text # <<>> => Len(ui.transcripts) < capItems
       /\ Commit(afterGenerate(Start("handleFileUpload", 0), ok, text, t))

generateSettles == generate(MaxItems, MaxNow)

generateSettlesList == generate(MaxListItems, MaxListNow)

\* sample values around the ends and the middle of the nominal range
Samples ==
  {-((3 * SampleDen) \div 2), -SampleDen - 1, -SampleDen, -SampleDen + 1,
   -(SampleDen \div 2), -1, 0, 1, SampleDen \div 2,
   SampleDen - 1, SampleDen, SampleDen + 1, (3 * SampleDen) \div 2}

Buffers == UNION {[1..n -> Samples] : n \in 0..MaxSamples}

\* createBlob is applied to the buffer of an audio event
createBlobApplied ==
  /\ pcm.blob = NoBlob
  /\ pcm' = createBlob(pcm.data)
  /\ UNCHANGED <<svc, ctxState, micState, connState, tapState, closeCb, cpc, ui, up,
                 now, audio, last, hist>>

Init ==
  /\ svc = NullSvc
  /\ ctxState = [k \in Ids |-> "none"]
  /\ micState = [k \in Ids |-> "none"]
  /\ connState = [k \in Ids |-> "none"]
  /\ tapState = [k \in Ids |-> "none"]
  /\ closeCb = [k \in Ids |-> FALSE]
  /\ cpc = [k \in Ids |-> "idle"]
  /\ ui = InitUi
  /\ up = IdleUp
  /\ now = 1
  /\ audio = InitAudio
  /\ pcm = NoPcm
  /\ last = NoLast("init", 0)
  /\ hist = InitHist

\* the session lifecycle
Next ==
  \/ toggleRecording
  \/ micSettles
  \/ sessionSettles
  \/ handleOnClose
  \/ handleOnError
  \/ unmount

Spec == Init /\ [][Next]_vars

\* the session lifecycle with the messages of the live connection
NextLive ==
  \/ toggleRecordingLive
  \/ micSettles
  \/ sessionSettles
  \/ handleOnClose
  \/ handleOnError
  \/ onmessage
  \/ unmount
  \/ clearTranscripts

SpecLive == Init /\ [][NextLive]_vars

\* the session lifecycle with the batch path
NextUpload ==
  \/ toggleRecordingUpload
  \/ micSettles
  \/ sessionSettles
  \/ handleOnClose
  \/ handleOnError
  \/ unmount
  \/ clearTranscripts
  \/ fileChosen
  \/ base64Settles
  \/ uploadSettles
  \/ timerFires
  \/ getSettles
  \/ generateSettles

SpecUpload == Init /\ [][NextUpload]_vars

\* the same, with every promise and timer that handleFileUpload awaits
\* settling at some time
SpecUploadFair ==
  /\ SpecUpload
  /\ WF_vars(base64Settles)
  /\ WF_vars(uploadSettles)
  /\ WF_vars(timerFires)
  /\ WF_vars(getSettles)
  /\ WF_vars(generateSettles)

\* the live path and the batch path feeding one transcript list
NextList ==
  \/ toggleRecordingList
  \/ micSettles
  \/ sessionSettles
  \/ handleOnClose
  \/ handleOnError
  \/ onmessageList
  \/ unmount
  \/ clearTranscripts
  \/ fileChosen
  \/ base64Settles
  \/ uploadSettles
  \/ timerFires
  \/ getSettles
  \/ generateSettlesList

SpecList == Init /\ [][NextList]_vars

\* the session lifecycle with the audio tap
NextAudio ==
  \/ toggleRecordingAudio
  \/ micSettles
  \/ sessionSettles
  \/ handleOnClose
  \/ handleOnError
  \/ onaudioprocess
  \/ unmount

SpecAudio == Init /\ [][NextAudio]_vars

\* the same with sessions that overlap
NextTaps ==
  \/ toggleRecordingTaps
  \/ micSettles
  \/ sessionSettles
  \/ handleOnClose
  \/ handleOnError
  \/ onaudioprocessTaps
  \/ unmount

SpecTaps == Init /\ [][NextTaps]_vars

\* the encoder applied to any audio buffer
InitPcm ==
  /\ svc = NullSvc
  /\ ctxState = [k \in Ids |-> "none"]
  /\ micState = [k \in Ids |-> "none"]
  /\ connState = [k \in Ids |-> "none"]
  /\ tapState = [k \in Ids |-> "none"]
  /\ closeCb = [k \in Ids |-> FALSE]
  /\ cpc = [k \in Ids |-> "idle"]
  /\ ui = InitUi
  /\ up = IdleUp
  /\ now = 1
  /\ audio = InitAudio
  /\ pcm \in {[NoPcm EXCEPT !.data = d] : d \in Buffers}
  /\ last = NoLast("init", 0)
  /\ hist = InitHist

NextPcm == createBlobApplied

SpecPcm == InitPcm /\ [][NextPcm]_vars

\* ---------------------------------------------------------------- properties
IsPrefix(p, t) == Len(p) <= Len(t) /\ SubSeq(t, 1, Len(p)) = p

Range(f) == {f[i] : i \in DOMAIN f}

\* the upload attempt in progress, or the one the last task ended
UpView == IF last.upEnd # "" THEN last.up ELSE up

\* C1: whatever the manager holds when disconnect() is called, the call does
\* not throw, leaves every resource field unset and the buffer empty, and
\* notifies 'not connected' once
C1_DisconnectAnyState ==
  /\ last.nFalse = last.disc
  /\ last.disc > 0 => /\ ~last.threw
                      /\ svc = NullSvc
                      /\ last.nFalse = 1

\* disconnect() was called by a close event on a manager that held nothing
C1_Witness ==
  /\ last.op = "handleOnClose"
  /\ last.disc = 1
  /\ ~last.heldBefore
  /\ last.nFalse = 1

\* C2 (as claimed): a connect() during which disconnect() was called ends
\* holding no stream, no audio context and no open connection, and without
\* reporting 'connected'
C2_DisconnectCancelsPendingConnect ==
  \A k \in Ids :
    (last.op = "connect" /\ last.k = k /\ cpc[k] = "done" /\ last.discDuring) =>
      /\ svc.stream = NULL
      /\ svc.inputAudioContext = NULL
      /\ svc.session = NULL
      /\ last.nTrue = 0

\* C3 (as claimed): the signals of one failed connection cause at most one
\* 'not connected' notification
C3_OneReportPerFailure ==
  last.failReports <= 1

\* C4 (as claimed): when an error is reported to the observer the manager
\* holds no resource
C4_ReleasedBeforeError ==
  last.nErr > 0 => ~last.heldAtErr

\* C5 (as claimed): when a failed connect() returns, what it acquired is
\* released, the fields are unset, 'not connected' was notified and one error
\* was reported
C5_FailedConnectReleasesAll ==
  (last.op = "connect" /\ last.failed) =>
    /\ ctxState[last.k] # "running"
    /\ micState[last.k] # "live"
    /\ connState[last.k] # "open"
    /\ ~Held(svc)
    /\ last.nFalse = 1
    /\ last.nErr = 1

\* C6 (as claimed): no two connect() calls are in progress or hold an open
\* session at the same time, and no two audio contexts, microphone streams or
\* connections are live at the same time
C6_OneSessionAtATime ==
  /\ Cardinality({k \in Ids : cpc[k] \in Pending \/ connState[k] = "open"}) <= 1
  /\ Cardinality({k \in Ids : ctxState[k] = "running"}) <= 1
  /\ Cardinality({k \in Ids : micState[k] = "live"}) <= 1

\* C7 (as claimed): the busy indicator of an upload is never set while the
\* connection state is CONNECTING or CONNECTED
C7_UploadExcludesLive ==
  ~(ui.isUploading /\ ui.connectionState \in {"CONNECTING", "CONNECTED"})

\* C8: an upload started in connection state CONNECTED notifies 'not
\* connected' before its first upload, poll or transcription request
C8_DisconnectBeforeRequests ==
  (UpView.pc # "idle" /\ UpView.startedAs = "CONNECTED") =>
    /\ UpView.log # <<>>
    /\ UpView.log[1] = "notConnected"

\* such an upload has issued its transcription request
C8_Witness ==
  /\ up.startedAs = "CONNECTED"
  /\ up.pc = "awaitGenerate"
  /\ up.log[Len(up.log)] = "generate"

\* C9: a turn-complete signal emits one finalized item of speaker user with
\* the accumulated text and empties the buffer if that text is not blank, and
\* emits nothing otherwise
C9_TurnComplete ==
  (last.op = "handleOnMessage" /\ last.turnComplete) =>
    LET finals == Finals(last.items)
    IN IF Trim(last.expected) # <<>>
       THEN /\ Len(finals) = 1
            /\ finals[1].text = last.expected
            /\ finals[1].speaker = "user"
            /\ ~finals[1].isPartial
            /\ svc.currentInputTranscription = <<>>
       ELSE finals = <<>>

\* a turn of two fragments, one of them blank, was finalized
C9_Witness ==
  /\ last.op = "handleOnMessage"
  /\ last.turnComplete
  /\ Len(last.expected) = 2
  /\ Len(Finals(last.items)) = 1
  /\ last.expected # Trim(last.expected)

\* C10: a fragment with text causes one partial update, whose text is all
\* fragments delivered since the last finalized item or disconnect() in
\* order, and extends the previous partial update of the turn
C10_PartialIsWholeBuffer ==
  (last.op = "handleOnMessage" /\ last.frag # <<>>) =>
    LET parts == Partials(last.items)
    IN /\ Len(parts) = 1
       /\ parts[1].text = last.expected
       /\ IsPrefix(last.prevPartial, parts[1].text)
       /\ Finals(last.items) = <<>> => svc.currentInputTranscription = last.expected

\* the second fragment of a turn was delivered
C10_Witness ==
  /\ last.op = "handleOnMessage"
  /\ last.frag # <<>>
  /\ last.prevPartial # <<>>
  /\ Len(Partials(last.items)) = 1
  /\ Len(Partials(last.items)[1].text) = 2

\* C11: a task that handled a failure (it reported an error) leaves a
\* mounted UI in connection state DISCONNECTED with an error message set, and
\* starts no connect(): a connect() leaves its idle state only in its own
\* first step, which toggleRecording runs
C11_FailureEndsDisconnected ==
  [][/\ (last'.nErr > 0 /\ ui'.mounted) =>
          /\ ui'.connectionState = "DISCONNECTED"
          /\ ui'.error # "null"
          /\ \A k \in Ids : cpc'[k] \in Pending => cpc[k] \in Pending
     /\ \A k \in Ids :
          (cpc[k] = "idle" /\ cpc'[k] # "idle") =>
             /\ last'.op = "connect" /\ last'.k = k
             /\ ui.mounted
             /\ ui.connectionState \notin {"CONNECTING", "CONNECTED"}]_vars

\* the error event of an open connection was handled while the UI showed
\* CONNECTED
C11_Witness ==
  /\ last.op = "handleOnError"
  /\ last.nErr = 1
  /\ ui.mounted
  /\ ui.connectionState = "DISCONNECTED"
  /\ ui.error = "Connection error occurred."

\* C12 (as claimed): an upload attempt that has begun ends at some time, with
\* an item, an empty result or a reported error, even if every request it
\* awaits is answered
C12_UploadTerminates ==
  (up.pc # "idle") ~> (up.pc = "idle" /\ last.upEnd \in {"item", "empty", "error"})

\* C13: when an upload attempt ends, on whatever path, the busy indicator is
\* off, the upload status is empty and the value of the file input is reset
C13_UploadEndClearsBusy ==
  (last.upEnd # "" /\ ui.mounted) =>
    /\ ~ui.isUploading
    /\ ui.uploadStatus = ""
    /\ ui.fileInput = ""
    /\ up = IdleUp

\* an upload ended because a poll found the file FAILED
C13_Witness ==
  /\ last.upEnd = "error"
  /\ last.up.state = "FAILED"
  /\ last.up.pc = "awaitGet"
  /\ ui.mounted
  /\ ~ui.isUploading

\* C14 (as claimed): an upload whose file was reported FAILED, by the upload
\* response or by a poll, issues no transcription request and ends with a
\* reported error
C14_FailedFileNotTranscribed ==
  (UpView.pc # "idle" /\ UpView.state = "FAILED") =>
    /\ "generate" \notin Range(UpView.log)
    /\ UpView.pc # "awaitGenerate"
    /\ last.upEnd \in {"", "error"}

\* C15: a file smaller than the threshold is read and sent inline and is
\* never uploaded or polled; a file of the threshold size or larger is
\* uploaded and sent by reference, never inline
C15_PathBySize ==
  UpView.pc # "idle" =>
    IF UpView.size < Threshold
    THEN /\ UpView.log \in {<<>>, <<"notConnected">>, <<"generate">>,
                            <<"notConnected", "generate">>}
         /\ UpView.part \in {"", "inlineData"}
         /\ UpView.pc \in {"awaitBase64", "awaitGenerate"}
         /\ UpView.state = ""
    ELSE /\ "upload" \in Range(UpView.log)
         /\ UpView.part \in {"", "fileData"}
         /\ UpView.pc \in {"awaitUpload", "awaitTimer", "awaitGet", "awaitGenerate"}

\* a file of exactly the threshold size was uploaded and is being
\* transcribed by reference
C15_Witness ==
  /\ up.size = Threshold
  /\ up.pc = "awaitGenerate"
  /\ up.part = "fileData"
  /\ "upload" \in Range(up.log)

\* the list t is the list s with one finalized item of speaker user added
\* at its end
AppendsOne(s, t) ==
  /\ Len(t) = Len(s) + 1
  /\ SubSeq(t, 1, Len(s)) = s
  /\ ~t[Len(t)].isPartial
  /\ t[Len(t)].speaker = "user"

\* C16 (as claimed): the task that ends an upload attempt appends one
\* finalized item of speaker user with the returned text, or appends nothing,
\* and it appends nothing only if the service returned empty text
C16_ZeroOnlyIfEmptyText ==
  [][(last'.upEnd # "" /\ ui'.mounted) =>
       \/ /\ AppendsOne(ui.transcripts, ui'.transcripts)
          /\ ui'.transcripts[Len(ui'.transcripts)].text = last'.respText
          /\ last'.respText # <<>>
       \/ /\ ui'.transcripts = ui.transcripts
          /\ last'.upEnd = "empty"
          /\ last'.respText = <<>>]_vars

\* C16 (amended): the same, where it appends nothing only if the service
\* returned empty text or the attempt ended with a reported error
C16_ZeroOnlyIfEmptyOrError ==
  [][(last'.upEnd # "" /\ ui'.mounted) =>
       \/ /\ AppendsOne(ui.transcripts, ui'.transcripts)
          /\ ui'.transcripts[Len(ui'.transcripts)].text = last'.respText
          /\ last'.respText # <<>>
          /\ last'.upEnd = "item"
       \/ /\ ui'.transcripts = ui.transcripts
          /\ last'.respText = <<>>
          /\ \/ last'.upEnd = "empty"
             \/ last'.upEnd = "error" /\ ui'.error # "null"]_vars

\* an upload attempt ended with a reported error and appended nothing
C16_Witness ==
  /\ last.upEnd = "error"
  /\ last.up.pc = "awaitGenerate"
  /\ ui.mounted
  /\ ui.error # "null"
  /\ ui.transcripts = <<>>

\* C17: a confirmed clear empties the finalized list whatever the connection
\* state is; it leaves the partial text as it was if the state was CONNECTED
\* and empties it if the state was DISCONNECTED
C17_ClearKeepsLivePartial ==
  [][(last'.op = "clearTranscripts" /\ last'.confirmed) =>
       /\ ui'.transcripts = <<>>
       /\ ui.connectionState = "CONNECTED" => ui'.currentText = ui.currentText
       /\ ui.connectionState = "DISCONNECTED" => ui'.currentText = <<>>
       /\ ui'.connectionState = ui.connectionState]_vars

\* a clear was confirmed while CONNECTED and left a partial text in place
C17_Witness ==
  /\ last.op = "clearTranscripts"
  /\ last.confirmed
  /\ ui.connectionState = "CONNECTED"
  /\ ui.currentText # <<>>
  /\ ui.transcripts = <<>>

\* C18: every step that is not a confirmed clear leaves the finalized list
\* of a mounted UI as it was or adds one finalized item at its end
C18_ListAppendOnly ==
  [][(ui'.mounted /\ ~(last'.op = "clearTranscripts" /\ last'.confirmed)) =>
       \/ ui'.transcripts = ui.transcripts
       \/ AppendsOne(ui.transcripts, ui'.transcripts)]_vars

\* the live path added an item to a list that held one already, while an
\* upload was in progress
C18_Witness ==
  /\ last.op = "handleOnMessage"
  /\ Finals(last.items) # <<>>
  /\ Len(ui.transcripts) = 2
  /\ ui.transcripts[2] = Finals(last.items)[1]
  /\ ui.isUploading

\* C19 (as claimed): no two items of the finalized list have the same id,
\* and none has the id of the partial item
C19_UniqueIds ==
  /\ \A i, j \in DOMAIN ui.transcripts :
        i # j => ui.transcripts[i].id # ui.transcripts[j].id
  /\ \A i \in DOMAIN ui.transcripts : ui.transcripts[i].id # "current-turn"

\* C20: the chunks a connection was sent are in the order in which the tap
\* of its session made them, and an audio event of a tap whose connection is
\* open dispatches its chunk in the same task, after all earlier ones
C20_FramesInOrder ==
  [][/\ \A k \in Ids : \A i, j \in DOMAIN audio'.sent[k] :
          i < j => audio'.sent[k][i] < audio'.sent[k][j]
     /\ \A k \in Ids :
          (audio'.produced[k] # audio.produced[k] /\ connState[k] = "open") =>
             audio'.sent[k] = Append(audio.sent[k], audio'.produced[k])]_vars

\* the third chunk of a session was dispatched
C20_Witness ==
  \E k \in Ids :
    /\ last.op = "onaudioprocess"
    /\ last.k = k
    /\ audio.sent[k] = <<1, 2, 3>>

\* C21: a chunk is sent only by the task of the audio event that made it,
\* which runs before any disconnect() that follows, and only to the
\* connection of the tap's own session while that connection is open; so no
\* task that calls disconnect(), and no task after it, sends an earlier chunk
C21_NoDispatchAfterDisconnect ==
  [][\A k \in Ids :
       audio'.sent[k] # audio.sent[k] =>
         /\ last'.op = "onaudioprocess"
         /\ last'.k = k
         /\ last'.disc = 0
         /\ tapState[k] = "attached"
         /\ connState[k] = "open"
         /\ audio'.produced[k] = audio.produced[k] + 1
         /\ audio'.sent[k] = Append(audio.sent[k], audio'.produced[k])]_vars

\* disconnect() was called in a session whose tap had made chunks, all of
\* them sent already
C21_Witness ==
  \E k \in Ids :
    /\ last.disc = 1
    /\ last.heldBefore
    /\ svc.session = NULL
    /\ audio.produced[k] = 2
    /\ audio.sent[k] = <<1, 2>>
    /\ tapState[k] = "none"
    /\ connState[k] = "none"

\* the value v >= 0 is the number a / d, a >= 0, with its fraction dropped
IsTruncationOf(v, a, d) == v >= 0 /\ v * d <= a /\ a - v * d < d

\* C22: every sample is encoded as its value clamped to [-1, 1], times
\* 32768 if that is negative and 32767 otherwise, with the fraction dropped;
\* the result lies in -32768..32767, a sample of 1 or more gives 32767 and
\* one of -1 or less gives -32768; 0 gives 0 and 0.5 gives 16383
C22_EncoderClamps ==
  pcm.blob # NoBlob =>
    /\ Len(pcm.int16) = Len(pcm.data)
    /\ \A i \in DOMAIN pcm.data :
         LET x == pcm.data[i]
             v == pcm.int16[i]
         IN /\ v \in -32768..32767
            /\ x >= SampleDen => v = 32767
            /\ x <= -SampleDen => v = -32768
            /\ (0 <= x /\ x < SampleDen) => IsTruncationOf(v, x * 32767, SampleDen)
            /\ (-SampleDen < x /\ x < 0) => IsTruncationOf(-v, (-x) * 32768, SampleDen)
            /\ x = 0 => v = 0
            /\ 2 * x = SampleDen => v = 16383

\* a buffer with a sample of 1.5 and a sample just below zero was encoded
C22_Witness ==
  /\ pcm.blob # NoBlob
  /\ pcm.data = <<(3 * SampleDen) \div 2, -1>>
  /\ pcm.int16 = <<32767, 0>>
  /\ pcm.blob.data = <<63, 55, 60, 0, 0, 0, 64, 64>>

\* the steps of disconnect() in the order of the claim
ReleaseOrder ==
  <<"connection", "tap", "source", "tracks", "context", "buffer", "notify">>

Rank(step) == CHOOSE i \in DOMAIN ReleaseOrder : ReleaseOrder[i] = step

\* C23: the steps a disconnect() takes are taken in the order connection,
\* tap, source, tracks, context, buffer, notification; steps for what does
\* not exist are left out, the last two never; the tap is detached before
\* the context is closed
C23_ReleaseOrder ==
  last.disc > 0 =>
    /\ Range(last.order) \subseteq Range(ReleaseOrder)
    /\ \A i, j \in DOMAIN last.order :
         i < j => Rank(last.order[i]) < Rank(last.order[j])
    /\ Len(last.order) >= 2
    /\ last.order[Len(last.order) - 1] = "buffer"
    /\ last.order[Len(last.order)] = "notify"
    /\ ~last.heldBefore => last.order = <<"buffer", "notify">>

\* a disconnect() of a complete session took all seven steps
C23_Witness ==
  /\ last.disc = 1
  /\ last.order = ReleaseOrder

\* C24 (as claimed): when the microphone request of a connect() is refused,
\* that connect() has created no audio context
C24_MicrophoneBeforeContext ==
  [][\A k \in Ids :
       (cpc[k] = "awaitMic" /\ cpc'[k] = "done" /\ last'.failed) =>
          /\ ctxState[k] # "running"
          /\ "context" \notin Range(last'.order)]_vars

\* C25 (as claimed): a close or error event of connection k that arrives
\* when the manager no longer holds session k, while a later connect() is
\* pending or connected, closes no other connection, stops no microphone
\* track, closes no audio context and notifies nothing
C25_StaleCloseHarmless ==
  [][\A k \in Ids :
       (/\ last'.op \in {"handleOnClose", "handleOnError"}
        /\ last'.k = k
        /\ svc.session # k
        /\ \E j \in Ids : j > k /\ (cpc[j] \in Pending \/ connState[j] = "open")) =>
          /\ \A j \in Ids \ {k} : connState'[j] = connState[j]
          /\ micState' = micState
          /\ ctxState' = ctxState
          /\ last'.nFalse = 0
          /\ ui'.connectionState = ui.connectionState]_vars

\* C26 (as claimed): the partial text the UI shows is the buffer of the
\* session manager
C26_PartialTextIsBuffer ==
  ui.mounted => ui.currentText = svc.currentInputTranscription

====
